---- MODULE Spec2Model ----
(***************************************************************************)
(* The product catalog handlers of src/controllers/userController.js       *)
(* (lines 96-381) as a state machine.  The document store, the upload      *)
(* directory and the requests in flight are the state; every handler is    *)
(* cut at its awaits, so that a step is what runs between two awaits and   *)
(* steps of different requests interleave as they do on the event loop.    *)
(***************************************************************************)
EXTENDS Integers, Sequences, FiniteSets, TLC

(* ---------------------------------------------------------------- bounds *)
MaxProducts == 2
MaxCreated == 1
MaxRequests == 2
MaxReviews == 2
MaxPage == 3

(* ------------------------------------------------------------ vocabulary *)
\* A JavaScript value that may be undefined is a sequence of length at most
\* one: <<>> is undefined, <<v>> is the value v.
UNDEF == <<>>
Some(v) == <<v>>
Val(x) == x[1]
\* null, where a document is expected
NoDoc == [null |-> TRUE]
Ids == 1..MaxProducts
Requests == 1..MaxRequests
Admin == "admin"
Users == {"u1", "u2"}
Ratings == {2, 4}
UserName(u) == CASE u = "u1" -> "Ann" [] u = "u2" -> "Bob" [] OTHER -> "Root"
UPLOADS == <<"/uploads">>
Categories == {"phones", "tablets"}
\* req.query.keyword: a string is its sequence of characters, '' is <<>>
Keywords == {<<>>, <<"P">>, <<"h", "A">>}
PageSizes == {UNDEF, Some(1), Some(2)}
PageNumbers == {UNDEF} \cup {Some(n) : n \in 0..MaxPage}

\* req.body of createProduct / updateProduct.  name is a sequence of
\* characters and image a sequence of path tokens (the handlers test them),
\* the other values are opaque.
BodyA ==
    [name |-> Some(<<"P", "h">>), price |-> Some(10), description |-> Some("d1"),
     image |-> Some(<<"/uploads", "/a.jpg">>), brand |-> Some("b1"),
     category |-> Some("phones"), countInStock |-> Some(5),
     colors |-> Some(<<"red">>), char |-> Some("x"), year |-> Some(2020)]
BodyB ==
    [name |-> Some(<<"p", "h", "a">>), price |-> Some(20), description |-> Some("d2"),
     image |-> Some(<<"http://cdn", "/uploads", "/b.jpg">>), brand |-> Some("b1"),
     category |-> Some("phones"), countInStock |-> Some(5),
     colors |-> Some(<<"red", "blue">>), char |-> Some("x"), year |-> Some(2021)]
BodyC ==
    [name |-> Some(<<"T">>), price |-> UNDEF, description |-> UNDEF, image |-> UNDEF,
     brand |-> UNDEF, category |-> Some("tablets"), countInStock |-> UNDEF,
     colors |-> UNDEF, char |-> UNDEF, year |-> UNDEF]
Bodies == {BodyA, BodyB, BodyC}
BodyFields ==
    {"name", "price", "description", "image", "brand", "category",
     "countInStock", "colors", "char", "year"}

VARIABLES store, nextId, files, req, res, PAGINATION_LIMIT
vars == <<store, nextId, files, req, res, PAGINATION_LIMIT>>

(* --------------------------------------------------------------- helpers *)
RECURSIVE Gcd(_, _)
Gcd(a, b) == IF b = 0 THEN a ELSE Gcd(b, a % b)

\* a / b of two non-negative integers, b > 0, as a fraction in lowest terms
Div(a, b) == [num |-> a \div Gcd(a, b), den |-> b \div Gcd(a, b)]

RECURSIVE SumRatings(_)
SumRatings(reviews) ==
    IF reviews = <<>> THEN 0
    ELSE reviews[Len(reviews)].rating + SumRatings(SubSeq(reviews, 1, Len(reviews) - 1))

\* product.reviews.reduce((acc, item) => item.rating + acc, 0) / product.reviews.length
Average(reviews) == Div(SumRatings(reviews), Len(reviews))

\* a variant: String.prototype.includes in place of startsWith
Includes(s, p) == \E i \in 1..(Len(s) - Len(p) + 1) : SubSeq(s, i, i + Len(p) - 1) = p

\* String.prototype.startsWith, on token sequences
StartsWith(s, p) == Len(s) >= Len(p) /\ SubSeq(s, 1, Len(p)) = p

\* a variant: the reviewer is looked up by display name instead of by id
AlreadyReviewedByName(product, user) ==
    \E i \in 1..Len(product.reviews) : product.reviews[i].name = user

\* product.reviews.find((r) => r.user.toString() === req.user._id.toString())
AlreadyReviewed(product, user) ==
    \E i \in 1..Len(product.reviews) : product.reviews[i].user = user

\* a variant: a query that ignores the id and yields the first document
FindFirst(id) ==
    IF \A i \in Ids : store[i] = NoDoc THEN NoDoc
    ELSE store[CHOOSE i \in Ids : store[i] # NoDoc /\ \A j \in Ids : j < i => store[j] = NoDoc]

\* Product.findById(id)
FindById(id) == store[id]

\* the schema's value of rating on a document created without one
DefaultRating == Div(0, 1)

\* new Product({...}) of createProduct
NewProduct(id, user, body) ==
    [f \in BodyFields |-> body[f]] @@
    [_id |-> id, user |-> user, numReviews |-> 0, rating |-> DefaultRating,
     reviews |-> <<>>]

\* One request slot: the handler running in it, where it stands (pc), its
\* inputs, the document it loaded (product), the handler's copy after its
\* assignments (doc), the fs calls it made, and its response.
Idle ==
    [op |-> "none", pc |-> "idle", id |-> 0, user |-> "", body |-> NoDoc,
     product |-> NoDoc, doc |-> NoDoc, fs |-> <<>>, exists |-> FALSE,
     filter |-> <<>>, pageNumber |-> UNDEF, page |-> 0, count |-> 0,
     minMaxPrice |-> <<>>,
     status |-> 0, error |-> "", result |-> NoDoc]

Free(r) == req[r].pc = "idle"

NoResponse ==
    [op |-> "none", id |-> 0, user |-> "", fs |-> <<>>, status |-> 0,
     error |-> "", result |-> NoDoc]

\* the request goes on to its next await
Continue(r, q) ==
    /\ req' = [req EXCEPT ![r] = q]
    /\ UNCHANGED res

\* res.json(...) or the thrown error: the request ends, res is what it sent
Respond(r, q) ==
    /\ req' = [req EXCEPT ![r] = Idle]
    /\ res' = [op |-> q.op, id |-> q.id, user |-> q.user, fs |-> q.fs,
               status |-> q.status, error |-> q.error, result |-> q.result]

NotFound(q) == [q EXCEPT !.status = 404, !.error = "Product not found"]

Init ==
    /\ store = [i \in Ids |-> NoDoc]
    /\ nextId = 1
    /\ files = {Val(BodyA.image)}
    /\ req = [r \in Requests |-> Idle]
    /\ res = NoResponse
    /\ PAGINATION_LIMIT = UNDEF

(* -------------------------------------------------------- getProductById *)
\* lines 175-183
getProductById(r, id) ==
    /\ Free(r)
    /\ LET product == FindById(id)
           q == [Idle EXCEPT !.op = "getProductById", !.id = id]
       IN IF product # NoDoc
          THEN Respond(r, [q EXCEPT !.status = 200, !.result = product])
          ELSE Respond(r, NotFound(q))
    /\ UNCHANGED <<store, nextId, files, PAGINATION_LIMIT>>

(* --------------------------------------------------------- createProduct *)
\* lines 190-209
createProduct(r, body) ==
    /\ Free(r)
    /\ nextId <= MaxProducts
    /\ LET q == [Idle EXCEPT !.op = "createProduct", !.user = Admin, !.body = body] IN
       \/ /\ store' = [store EXCEPT ![nextId] = NewProduct(nextId, Admin, body)]
          /\ nextId' = nextId + 1
          /\ Respond(r, [q EXCEPT !.id = nextId, !.status = 201,
                                  !.result = NewProduct(nextId, Admin, body)])
       \/ \* product.save() rejects: nothing is stored
          /\ Respond(r, [q EXCEPT !.status = 500, !.error = "save failed"])
          /\ UNCHANGED <<store, nextId>>
    /\ UNCHANGED <<files, PAGINATION_LIMIT>>

(* --------------------------------------------------------- product.save *)
\* a variant: the stored document is replaced by the handler's copy
SaveWhole(stored, product, doc) == doc

\* product.save() of a loaded document writes the paths the handler changed:
\* a path assigned a value that differs from the loaded one is $set, entries
\* pushed on an array are $push-ed on the stored array.  `product` is the
\* document as loaded, `doc` the handler's copy after its assignments.
SaveDelta(stored, product, doc) ==
    [f \in DOMAIN stored |->
        IF f = "reviews"
        THEN stored.reviews \o SubSeq(doc.reviews, Len(product.reviews) + 1, Len(doc.reviews))
        ELSE IF doc[f] # product[f] THEN doc[f] ELSE stored[f]]

\* The save step of updateProduct and createProductReview: the awaited
\* product.save() and the response after it.
Save(r, okStatus) ==
    LET q == req[r] IN
    \/ /\ store[q.id] # NoDoc
       /\ store' = [store EXCEPT ![q.id] = SaveDelta(@, q.product, q.doc)]
       /\ Respond(r, [q EXCEPT !.status = okStatus])
    \/ \* the save rejects (the document is gone, validation, the connection)
       /\ Respond(r, [q EXCEPT !.status = 500, !.error = "save failed"])
       /\ UNCHANGED store

(* --------------------------------------------------- createProductReview *)
\* lines 286-298: the review is pushed and the aggregates recomputed on the
\* handler's copy of the document
WithReview(product, user, rating) ==
    LET reviews == Append(product.reviews,
                          [name |-> UserName(user), rating |-> rating,
                           comment |-> "ok", user |-> user])
    IN [product EXCEPT !.reviews = reviews,
                       !.numReviews = Len(reviews),
                       !.rating = Average(reviews)]

\* lines 272-298, up to the awaited save
createProductReview(r, id, user, rating) ==
    /\ Free(r)
    /\ LET product == FindById(id)
           q == [Idle EXCEPT !.op = "createProductReview", !.id = id, !.user = user,
                             !.product = product]
       IN IF product # NoDoc
          THEN IF AlreadyReviewed(product, user)
               THEN Respond(r, [q EXCEPT !.status = 400, !.error = "Product already reviewed"])
               ELSE /\ Len(product.reviews) < MaxReviews
                    /\ Continue(r, [q EXCEPT !.pc = "save",
                                             !.doc = WithReview(product, user, rating)])
          ELSE Respond(r, NotFound(q))
    /\ UNCHANGED <<store, nextId, files, PAGINATION_LIMIT>>

\* lines 300-301
createProductReview_save(r) ==
    /\ req[r].op = "createProductReview"
    /\ req[r].pc = "save"
    /\ Save(r, 201)
    /\ UNCHANGED <<nextId, files, PAGINATION_LIMIT>>

(* --------------------------------------------------------- updateProduct *)
\* lines 223-232
WithBody(product, body) ==
    [f \in DOMAIN product |-> IF f \in BodyFields THEN body[f] ELSE product[f]]

\* lines 217-232, up to the awaited save
updateProduct(r, id, body) ==
    /\ Free(r)
    /\ LET product == FindById(id)
           q == [Idle EXCEPT !.op = "updateProduct", !.id = id, !.body = body,
                             !.product = product]
       IN IF product # NoDoc
          THEN Continue(r, [q EXCEPT !.pc = "save", !.doc = WithBody(product, body)])
          ELSE Respond(r, NotFound(q))
    /\ UNCHANGED <<store, nextId, files, PAGINATION_LIMIT>>

\* lines 234-235
updateProduct_save(r) ==
    /\ req[r].op = "updateProduct"
    /\ req[r].pc = "save"
    /\ Save(r, 200)
    /\ UNCHANGED <<nextId, files, PAGINATION_LIMIT>>

(* --------------------------------------------------------- deleteProduct *)
\* lines 248-250 and 260-262: await Product.findById(req.params.id)
deleteProduct(r, id) ==
    /\ Free(r)
    /\ LET product == FindById(id)
           q == [Idle EXCEPT !.op = "deleteProduct", !.id = id, !.product = product]
       IN IF product # NoDoc
          THEN Continue(r, [q EXCEPT !.pc = "existsSync"])
          ELSE Respond(r, NotFound(q))
    /\ UNCHANGED <<store, nextId, files, PAGINATION_LIMIT>>

\* lines 251-254: what runs when findById has resolved, up to the next await
deleteProduct_existsSync(r) ==
    LET q == req[r]
        product == q.product
    IN
    /\ q.op = "deleteProduct"
    /\ q.pc = "existsSync"
    /\ IF product.image = UNDEF
       THEN \* product.image.startsWith throws a TypeError
            Respond(r, [q EXCEPT !.status = 500, !.error = "TypeError"])
       ELSE IF StartsWith(Val(product.image), UPLOADS)
            THEN IF Val(product.image) \in files
                 THEN Continue(r, [q EXCEPT !.pc = "unlink", !.fs = <<"existsSync">>,
                                            !.exists = TRUE])
                 ELSE Continue(r, [q EXCEPT !.pc = "deleteOne", !.fs = <<"existsSync">>])
            ELSE Continue(r, [q EXCEPT !.pc = "deleteOne"])
    /\ UNCHANGED <<store, nextId, files, PAGINATION_LIMIT>>

\* a variant: a failure of unlink is swallowed and the handler goes on
deleteProduct_unlinkIgnoringErrors(r) ==
    LET q == req[r]
        file == Val(q.product.image)
    IN
    /\ q.op = "deleteProduct"
    /\ q.pc = "unlink"
    /\ \/ /\ file \in files
          /\ files' = files \ {file}
       \/ UNCHANGED files
    /\ Continue(r, [q EXCEPT !.pc = "deleteOne", !.fs = Append(@, "unlink")])
    /\ UNCHANGED <<store, nextId, PAGINATION_LIMIT>>

\* line 255: await unlink(filePath)
deleteProduct_unlink(r) ==
    LET q == req[r]
        file == Val(q.product.image)
    IN
    /\ q.op = "deleteProduct"
    /\ q.pc = "unlink"
    /\ \/ /\ file \in files
          /\ files' = files \ {file}
          /\ Continue(r, [q EXCEPT !.pc = "deleteOne", !.fs = Append(@, "unlink")])
       \/ \* unlink rejects (the file is gone by now, or cannot be removed)
          /\ Respond(r, [q EXCEPT !.fs = Append(@, "unlink"),
                                  !.status = 500, !.error = "unlink failed"])
          /\ UNCHANGED files
    /\ UNCHANGED <<store, nextId, PAGINATION_LIMIT>>

\* lines 258-259: await Product.deleteOne({ _id: product._id })
deleteProduct_deleteOne(r) ==
    LET q == req[r] IN
    /\ q.op = "deleteProduct"
    /\ q.pc = "deleteOne"
    /\ \/ /\ store' = [store EXCEPT ![q.id] = NoDoc]
          /\ Respond(r, [q EXCEPT !.status = 200])
       \/ \* deleteOne rejects
          /\ Respond(r, [q EXCEPT !.status = 500, !.error = "deleteOne failed"])
          /\ UNCHANGED store
    /\ UNCHANGED <<nextId, files, PAGINATION_LIMIT>>

(* ------------------------------------------------------------- queries *)
\* the documents of the collection, in the store's order
RECURSIVE Documents(_)
Documents(n) ==
    IF n = 0 THEN <<>>
    ELSE IF store[n] = NoDoc THEN Documents(n - 1)
         ELSE Append(Documents(n - 1), store[n])

Lower(c) == CASE c = "P" -> "p" [] c = "A" -> "a" [] c = "T" -> "t" [] OTHER -> c
LowerCase(str) == [i \in 1..Len(str) |-> Lower(str[i])]

\* { name: { $regex: keyword, $options: 'i' } }, keyword a plain string
RegexI(name, keyword) ==
    \E i \in 1..(Len(name) - Len(keyword) + 1) :
        SubSeq(LowerCase(name), i, i + Len(keyword) - 1) = LowerCase(keyword)

\* lines 111-118 and 133-137: the filter is [field, value], or <<>> for {}
KeywordFilter(keyword) == IF keyword # <<>> THEN <<"name", keyword>> ELSE <<>>
CategoryFilter(category) == IF category # "" THEN <<"category", category>> ELSE <<>>

Matches(doc, filter) ==
    IF filter = <<>> THEN TRUE
    ELSE IF filter[1] = "name"
         THEN doc.name # UNDEF /\ RegexI(Val(doc.name), filter[2])
         ELSE doc.category = Some(filter[2])

RECURSIVE Select(_, _)
Select(docs, filter) ==
    IF docs = <<>> THEN <<>>
    ELSE IF Matches(Head(docs), filter)
         THEN <<Head(docs)>> \o Select(Tail(docs), filter)
         ELSE Select(Tail(docs), filter)

\* Product.find(filter), in the store's order
Find(filter) == Select(Documents(MaxProducts), filter)

\* Product.countDocuments(filter)
CountDocuments(filter) == Len(Find(filter))

\* .limit(pageSize).skip(skip) of a query: the skip is applied first
LimitSkip(docs, limit, skip) ==
    SubSeq(docs, skip + 1, IF skip + limit < Len(docs) THEN skip + limit ELSE Len(docs))

DefaultPageSize == 10

\* process.env.PAGINATION_LIMIT || 10
PageSize == IF PAGINATION_LIMIT # UNDEF THEN Val(PAGINATION_LIMIT) ELSE DefaultPageSize

\* Number(req.query.pageNumber) || 1
PageOf(pageNumber) ==
    IF pageNumber # UNDEF /\ Val(pageNumber) # 0 THEN Val(pageNumber) ELSE 1

\* Math.ceil(count / pageSize)
Ceil(count, pageSize) == (count + pageSize - 1) \div pageSize

\* the $min / $max accumulators: documents without a price are ignored, and
\* the result is null (<<>>) when no document has one
Prices(docs) == {Val(docs[i].price) : i \in {j \in 1..Len(docs) : docs[j].price # UNDEF}}
MinOf(S) == IF S = {} THEN UNDEF ELSE Some(CHOOSE x \in S : \A y \in S : x <= y)
MaxOf(S) == IF S = {} THEN UNDEF ELSE Some(CHOOSE x \in S : \A y \in S : x >= y)

\* lines 140-149: one group when a document matches, none otherwise
Aggregate(filter) ==
    LET docs == Find(filter) IN
    IF docs = <<>> THEN <<>>
    ELSE <<[minPrice |-> MinOf(Prices(docs)), maxPrice |-> MaxOf(Prices(docs))]>>

\* a variant: the first page is skipped: pageSize * page
FindPageOffByOne(filter, page) == LimitSkip(Find(filter), PageSize, PageSize * page)

\* lines 121-123 and 152-154: Product.find(filter).limit(pageSize).skip(pageSize * (page - 1))
FindPage(filter, page) == LimitSkip(Find(filter), PageSize, PageSize * (page - 1))

(* ------------------------------------------------------------ getProducts *)
\* lines 108-120: up to the awaited countDocuments
getProducts(r, keyword, pageNumber) ==
    /\ Free(r)
    /\ Continue(r, [Idle EXCEPT !.op = "getProducts", !.pc = "find",
                                !.filter = KeywordFilter(keyword),
                                !.pageNumber = pageNumber,
                                !.page = PageOf(pageNumber),
                                !.count = CountDocuments(KeywordFilter(keyword))])
    /\ UNCHANGED <<store, nextId, files, PAGINATION_LIMIT>>

\* lines 121-125
getProducts_find(r) ==
    LET q == req[r]
        products == FindPage(q.filter, q.page)
    IN
    /\ q.op = "getProducts"
    /\ q.pc = "find"
    /\ Respond(r, [q EXCEPT !.status = 200,
                            !.result = [products |-> products, page |-> q.page,
                                        pages |-> Ceil(q.count, PageSize)]])
    /\ UNCHANGED <<store, nextId, files, PAGINATION_LIMIT>>

(* -------------------------------------------------- getProductsByCategory *)
\* a variant: the 404 of an empty page is forgotten
StatusAlwaysOk(products) == 200

\* lines 156-158: res.status(404) when the page is empty, 200 otherwise
StatusOf(products) == IF Len(products) = 0 THEN 404 ELSE 200

\* lines 129-149: up to the awaited aggregate
getProductsByCategory(r, category, pageNumber) ==
    /\ Free(r)
    /\ Continue(r, [Idle EXCEPT !.op = "getProductsByCategory", !.pc = "count",
                                !.filter = CategoryFilter(category),
                                !.pageNumber = pageNumber,
                                !.page = PageOf(pageNumber),
                                !.minMaxPrice = Aggregate(CategoryFilter(category))])
    /\ UNCHANGED <<store, nextId, files, PAGINATION_LIMIT>>

\* line 151
getProductsByCategory_count(r) ==
    LET q == req[r] IN
    /\ q.op = "getProductsByCategory"
    /\ q.pc = "count"
    /\ Continue(r, [q EXCEPT !.pc = "find", !.count = CountDocuments(q.filter)])
    /\ UNCHANGED <<store, nextId, files, PAGINATION_LIMIT>>

\* lines 152-167
getProductsByCategory_find(r) ==
    LET q == req[r]
        products == FindPage(q.filter, q.page)
    IN
    /\ q.op = "getProductsByCategory"
    /\ q.pc = "find"
    /\ Respond(r, [q EXCEPT
            !.status = StatusOf(products),
            !.result = [products |-> products,
                        category |-> q.filter[2],
                        page |-> q.page,
                        pages |-> Ceil(q.count, PageSize),
                        minPrice |-> IF Len(q.minMaxPrice) > 0
                                     THEN q.minMaxPrice[1].minPrice ELSE UNDEF,
                        maxPrice |-> IF Len(q.minMaxPrice) > 0
                                     THEN q.minMaxPrice[1].maxPrice ELSE UNDEF]])
    /\ UNCHANGED <<store, nextId, files, PAGINATION_LIMIT>>

(* ------------------------------------------------------- specifications *)
\* The ids a request may name: those the store has issued (deleted ones
\* included), and with Known one id it has never issued.
Issued == {i \in Ids : i < nextId}
Known == {i \in Ids : i <= nextId}

\* The catalog's writers on an empty store: products are created, updated,
\* reviewed and deleted by requests that overlap.
Next ==
    \E r \in Requests :
        \/ \E body \in {BodyA} : nextId <= MaxCreated /\ createProduct(r, body)
        \/ \E id \in Issued, body \in {BodyB, BodyC} : updateProduct(r, id, body)
        \/ updateProduct_save(r)
        \/ \E id \in Issued : deleteProduct(r, id)
        \/ deleteProduct_existsSync(r)
        \/ deleteProduct_unlink(r)
        \/ deleteProduct_deleteOne(r)
        \/ \E id \in Issued, user \in Users, rating \in Ratings :
              createProductReview(r, id, user, rating)
        \/ createProductReview_save(r)

Spec == Init /\ [][Next]_vars

\* The store after one createProduct(body) on the empty store, with the
\* uploaded files in `present`.
Loaded(body, present) ==
    /\ store = [i \in Ids |-> IF i = 1 THEN NewProduct(i, Admin, body) ELSE NoDoc]
    /\ nextId = 2
    /\ files = present
    /\ req = [r \in Requests |-> Idle]
    /\ res = NoResponse
    /\ PAGINATION_LIMIT = UNDEF

UploadedFiles == {Val(BodyA.image)}

\* Overlapping reviews of one product.
InitReview == Loaded(BodyA, UploadedFiles)

NextReview ==
    \E r \in Requests :
        \/ \E id \in Known, user \in Users, rating \in Ratings :
              createProductReview(r, id, user, rating)
        \/ createProductReview_save(r)

SpecReview == InitReview /\ [][NextReview]_vars

\* Updates and reviews of one product, overlapping, and its deletions, one at
\* a time; its image file is not in the upload directory, so unlink is never
\* called.
InitUpdate == Loaded(BodyA, {})

Remover == CHOOSE r \in Requests : TRUE

NextUpdate ==
    \/ \E r \in Requests :
        \/ \E id \in Issued, body \in {BodyB, BodyC} : updateProduct(r, id, body)
        \/ updateProduct_save(r)
        \/ \E id \in Issued, user \in {"u1"}, rating \in {2} :
              createProductReview(r, id, user, rating)
        \/ createProductReview_save(r)
    \/ \E id \in Issued : deleteProduct(Remover, id)
    \/ deleteProduct_existsSync(Remover)
    \/ deleteProduct_deleteOne(Remover)

SpecUpdate == InitUpdate /\ [][NextUpdate]_vars

\* Requests by id: the reader and the three writers, on one product whose
\* image file may or may not be in the upload directory.
InitDelete == \E body \in Bodies, present \in SUBSET UploadedFiles : Loaded(body, present)

NextDelete ==
    \E r \in Requests :
        \/ \E id \in Known : getProductById(r, id)
        \/ \E id \in Known, body \in {BodyB} : updateProduct(r, id, body)
        \/ updateProduct_save(r)
        \/ \E id \in Known : deleteProduct(r, id)
        \/ deleteProduct_existsSync(r)
        \/ deleteProduct_unlink(r)
        \/ deleteProduct_deleteOne(r)
        \/ \E id \in Known, user \in {"u1"}, rating \in {2} :
              createProductReview(r, id, user, rating)
        \/ createProductReview_save(r)

SpecDelete == InitDelete /\ [][NextDelete]_vars

\* The listings, one at a time, with products being created while they run.
\* The page size is read from the environment, which is fixed when the
\* process starts.
InitList ==
    /\ store = [i \in Ids |-> NoDoc]
    /\ nextId = 1
    /\ files = UploadedFiles
    /\ req = [r \in Requests |-> Idle]
    /\ res = NoResponse
    /\ PAGINATION_LIMIT \in PageSizes

Reader == CHOOSE r \in Requests : TRUE

NextList ==
    \/ \E r \in Requests, body \in Bodies : createProduct(r, body)
    \/ \E keyword \in Keywords, pageNumber \in PageNumbers :
          getProducts(Reader, keyword, pageNumber)
    \/ getProducts_find(Reader)
    \/ \E category \in Categories, pageNumber \in PageNumbers :
          getProductsByCategory(Reader, category, pageNumber)
    \/ getProductsByCategory_count(Reader)
    \/ getProductsByCategory_find(Reader)

SpecList == InitList /\ [][NextList]_vars

(* ================================================================ claims *)
\* the request in slot r took its first step, and went on to an await
Began(r, op) == req[r].pc = "idle" /\ req'[r].pc # "idle" /\ req'[r].op = op

\* a request of handler op answered in its first step
Answered(op) == req' = req /\ res' # res /\ res'.op = op

\* the request in slot r of handler op, waiting at pc, took its last step
Ended(r, op, pc) == req[r].op = op /\ req[r].pc = pc /\ req'[r] = Idle

ReviewedBy(doc, user) == \E i \in 1..Len(doc.reviews) : doc.reviews[i].user = user

IsPrefix(s, t) == Len(s) <= Len(t) /\ SubSeq(t, 1, Len(s)) = s

\* C1: no stored product holds two reviews with the same user reference.
C1_OneReviewPerUser ==
    \A id \in Ids :
        store[id] # NoDoc =>
            \A i, j \in 1..Len(store[id].reviews) :
                store[id].reviews[i].user = store[id].reviews[j].user => i = j

\* C2: in every stored product numReviews is the length of reviews and, when
\* there are reviews, rating is the sum of their ratings divided by their
\* number.
C2_AggregatesMatchReviews ==
    \A id \in Ids :
        store[id] # NoDoc =>
            /\ store[id].numReviews = Len(store[id].reviews)
            /\ store[id].reviews # <<>> =>
                  /\ store[id].rating.num * Len(store[id].reviews)
                       = SumRatings(store[id].reviews) * store[id].rating.den
                  /\ store[id].rating.den > 0

\* C3: when a review by another user was saved between this request's read
\* and its own successful save (the two overlapped and both are answered
\* 201), the product then holds both reviews, numReviews has grown by two and
\* rating is the mean over all reviews.
C3_OverlappingReviewsBothCount ==
    [][\A r \in Requests :
        LET id == req[r].id
            mine == req[r].doc.reviews[Len(req[r].doc.reviews)]
            base == req[r].product.reviews
        IN (/\ Ended(r, "createProductReview", "save")
            /\ res'.status = 201
            /\ Len(store[id].reviews) = Len(base) + 1
            /\ IsPrefix(base, store[id].reviews)
            /\ store[id].reviews[Len(base) + 1].user # req[r].user)
           => /\ store'[id].reviews = Append(store[id].reviews, mine)
              /\ store'[id].numReviews = Len(base) + 2
              /\ store'[id].rating = Average(store'[id].reviews)]_vars

\* C4: a review request by a user who already has a review on the product is
\* answered 400 'Product already reviewed' in its first step, so it never
\* saves, and the store is left as it was.
C4_DuplicateReviewRejected ==
    [][/\ \A r \in Requests :
            Began(r, "createProductReview") =>
                \/ store[req'[r].id] = NoDoc
                \/ ~ReviewedBy(store[req'[r].id], req'[r].user)
       /\ (/\ Answered("createProductReview")
           /\ store[res'.id] # NoDoc
           /\ ReviewedBy(store[res'.id], res'.user))
          => /\ res'.status = 400
             /\ res'.error = "Product already reviewed"
             /\ store' = store
             /\ files' = files]_vars

C4_Witness ==
    /\ res.op = "createProductReview"
    /\ res.status = 400
    /\ store[res.id] # NoDoc
    /\ ReviewedBy(store[res.id], res.user)
    /\ \A r \in Requests : req[r] = Idle

ByIdHandlers == {"getProductById", "updateProduct", "deleteProduct", "createProductReview"}

\* C5: a request of getProductById, updateProduct, deleteProduct or
\* createProductReview for an id without a document is answered 404 'Product
\* not found' in its first step and leaves the store and the files unchanged;
\* getProductById for an id with a document answers 200 with that document.
C5_NotFound ==
    [][/\ \A r \in Requests, op \in ByIdHandlers :
            Began(r, op) => store[req'[r].id] # NoDoc
       /\ \A op \in ByIdHandlers :
            Answered(op) =>
                IF store[res'.id] = NoDoc
                THEN /\ res'.status = 404
                     /\ res'.error = "Product not found"
                     /\ store' = store
                     /\ files' = files
                ELSE op = "getProductById" =>
                        /\ res'.status = 200
                        /\ res'.result = store[res'.id]
                        /\ store' = store
                        /\ files' = files]_vars

C5_Witness ==
    /\ res.op = "deleteProduct"
    /\ res.status = 404
    /\ res.error = "Product not found"
    /\ \E id \in Ids : store[id] # NoDoc

\* the image path lies under the upload directory
IsUpload(image) == image # UNDEF /\ Len(Val(image)) > 0 /\ Val(image)[1] = "/uploads"

\* C8: when deleteProduct answers 200 for a product it read with an image
\* under /uploads, neither the document nor that file exists; for a product
\* it read with another image path, no step of the request calls existsSync
\* or unlink or changes the files, and the document is removed.
C8_DeleteRemovesRecordAndUpload ==
    [][\A r \in Requests :
        /\ (Ended(r, "deleteProduct", "deleteOne") /\ res'.status = 200) =>
              /\ store'[req[r].id] = NoDoc
              /\ IF IsUpload(req[r].product.image)
                 THEN Val(req[r].product.image) \notin files'
                 ELSE res'.fs = <<>> /\ files' = files
       /\ (req'[r] # req[r] /\ req'[r].op = "deleteProduct"
                            /\ ~IsUpload(req'[r].product.image)) =>
              /\ req'[r].fs = <<>>
              /\ req'[r].pc \in {"existsSync", "deleteOne"}
              /\ files' = files]_vars

C8_Witness ==
    /\ res.op = "deleteProduct"
    /\ res.status = 200
    /\ res.fs = <<"existsSync", "unlink">>
    /\ store[res.id] = NoDoc
    /\ files = {}

\* C9: in deleteProduct the file is deleted before the document and nothing
\* is rolled back.  A document disappears only in the deleteOne step of a
\* request that is past its file step (the file was absent, or unlink-ed);
\* a request whose unlink fails is answered 500 and never deletes the
\* document; a failing deleteOne leaves the document and does not restore
\* the file; a request that finds no file goes straight on to deleteOne.
C9_FileThenRecordNoRollback ==
    [][/\ \A id \in Ids :
            (store[id] # NoDoc /\ store'[id] = NoDoc) =>
                \E r \in Requests :
                    /\ Ended(r, "deleteProduct", "deleteOne")
                    /\ req[r].id = id
                    /\ files' = files
                    /\ IsUpload(req[r].product.image) =>
                          /\ Val(req[r].product.image) \notin files
                          /\ \/ req[r].fs = <<"existsSync", "unlink">>
                             \/ req[r].fs = <<"existsSync">> /\ ~req[r].exists
       /\ files' # files =>
            \E r \in Requests :
                /\ req[r].op = "deleteProduct"
                /\ req[r].pc = "unlink"
                /\ req'[r].pc = "deleteOne"
                /\ files' = files \ {Val(req[r].product.image)}
                /\ store' = store
       /\ \A r \in Requests :
            /\ (req[r].op = "deleteProduct" /\ req[r].pc = "unlink" /\ req'[r] # req[r]) =>
                  IF files' = files
                  THEN req'[r] = Idle /\ res'.status = 500 /\ store' = store
                  ELSE req'[r].pc = "deleteOne"
            /\ (Ended(r, "deleteProduct", "deleteOne") /\ res'.status # 200) =>
                  store' = store /\ files' = files
            /\ (/\ req[r].op = "deleteProduct"
                /\ req[r].pc = "existsSync"
                /\ req'[r] # req[r]
                /\ IsUpload(req[r].product.image)) =>
                  /\ req'[r].fs = <<"existsSync">>
                  /\ req'[r].exists = (Val(req'[r].product.image) \in files)
                  /\ req'[r].pc = IF req'[r].exists THEN "unlink" ELSE "deleteOne"]_vars

\* deleteOne failed after the file was deleted: the document is still stored
\* and names a file that no longer exists
C9_Witness ==
    /\ res.op = "deleteProduct"
    /\ res.status = 500
    /\ res.error = "deleteOne failed"
    /\ res.fs = <<"existsSync", "unlink">>
    /\ store[res.id] # NoDoc
    /\ IsUpload(store[res.id].image)
    /\ Val(store[res.id].image) \notin files

FrameFields == {"_id", "user", "reviews", "numReviews", "rating"}

\* C10: while a product is stored its reviews only grow at the end, each
\* stored review keeping its place and its content; the save of
\* updateProduct leaves _id, user, reviews, numReviews and rating as stored
\* and sets each of the ten body fields to the body's value (undefined when
\* omitted), a field whose body value equals the value the request read
\* being left as stored.
C10_ReviewsAppendOnly ==
    [][/\ \A id \in Ids :
            (store[id] # NoDoc /\ store'[id] # NoDoc) =>
                /\ IsPrefix(store[id].reviews, store'[id].reviews)
                /\ store'[id]._id = store[id]._id
                /\ store'[id].user = store[id].user
       /\ \A r \in Requests :
            (Ended(r, "updateProduct", "save") /\ res'.status = 200) =>
                LET id == req[r].id IN
                /\ store[id] # NoDoc
                /\ \A f \in FrameFields : store'[id][f] = store[id][f]
                /\ \A f \in BodyFields :
                      IF req[r].body[f] # req[r].product[f] \/ store[id][f] = req[r].product[f]
                      THEN store'[id][f] = req[r].body[f]
                      ELSE store'[id][f] = store[id][f]]_vars

\* an update was saved between the read and the save of a review, on a
\* product that already had a review
C10_Witness ==
    /\ res.op = "updateProduct"
    /\ res.status = 200
    /\ store[res.id] # NoDoc
    /\ store[res.id].reviews # <<>>
    /\ store[res.id].year = UNDEF
    /\ \E r \in Requests :
          /\ req[r].op = "createProductReview"
          /\ req[r].pc = "save"
          /\ req[r].id = res.id
          /\ req[r].product.name # store[res.id].name

\* the pages 1..n of the listing with `filter`, one after the other
RECURSIVE PagesUpTo(_, _)
PagesUpTo(filter, n) ==
    IF n = 0 THEN <<>> ELSE PagesUpTo(filter, n - 1) \o FindPage(filter, PageOf(Some(n)))

\* the least m with m * p >= n
CeilOf(n, p) == CHOOSE m \in 0..n : m * p >= n /\ \A k \in 0..n : k * p >= n => m <= k

\* records at positions p*(k-1)+1 .. min(p*k, n) of all
PageSlice(all, p, k) ==
    SubSeq(all, p * (k - 1) + 1, IF p * k < Len(all) THEN p * k ELSE Len(all))

\* C6: with N products matching the keyword and page size P, the pages
\* 1..ceil(N/P) one after the other are the matching products, each once and
\* in order; a getProducts request counts them, takes a missing or zero
\* pageNumber as page 1, returns on page k the records at positions
\* P*(k-1)+1 .. min(P*k, N), and reports pages = ceil(N/P) when the matching
\* products are as many as it counted.
C6_Pagination ==
    /\ [](\A keyword \in Keywords :
            LET filter == KeywordFilter(keyword)
                all == Find(filter)
            IN PagesUpTo(filter, CeilOf(Len(all), PageSize)) = all)
    /\ [][\A r \in Requests :
            /\ Began(r, "getProducts") =>
                  /\ req'[r].page = IF req'[r].pageNumber \in {UNDEF, Some(0)}
                                    THEN 1 ELSE Val(req'[r].pageNumber)
                  /\ req'[r].count = Len(Find(req'[r].filter))
            /\ Ended(r, "getProducts", "find") =>
                  LET all == Find(req[r].filter) IN
                  /\ res'.status = 200
                  /\ res'.result.page = req[r].page
                  /\ res'.result.products = PageSlice(all, PageSize, req[r].page)
                  /\ req[r].count = Len(all) =>
                        res'.result.pages = CeilOf(Len(all), PageSize)]_vars

\* the second and last page of two products listed one to a page
C6_Witness ==
    /\ res.op = "getProducts"
    /\ PAGINATION_LIMIT = Some(1)
    /\ res.result.page = 2
    /\ res.result.pages = 2
    /\ res.result.products = <<store[2]>>

Priced(docs) == \A i \in 1..Len(docs) : docs[i].price # UNDEF

\* C7 as stated: getProductsByCategory answers 404 exactly when no product
\* matches the category, whatever the page, and minPrice/maxPrice are null
\* exactly when it answers 404.  (Taken where the request's three reads agree
\* and every matching product has a price.)
C7_NotFoundOnlyWhenNoMatch ==
    [][\A r \in Requests :
        LET all == Find(req[r].filter) IN
        (/\ Ended(r, "getProductsByCategory", "find")
         /\ Priced(all)
         /\ req[r].count = Len(all)
         /\ req[r].minMaxPrice = Aggregate(req[r].filter))
        => /\ res'.status = 404 <=> Len(all) = 0
           /\ (res'.result.minPrice = UNDEF /\ res'.result.maxPrice = UNDEF)
                 <=> res'.status = 404]_vars

\* C7, amended: getProductsByCategory answers 404 exactly when the page it
\* returns is empty (no product matches, or the page lies past the last one)
\* and 200 otherwise; minPrice/maxPrice are null when no product matched the
\* category as the aggregate ran, and otherwise the least and the greatest
\* price among those that matched (null when none of them has a price); the
\* body with products, category, page and pages is sent either way.
C7_EmptyPageIs404 ==
    [][\A r \in Requests :
        /\ Began(r, "getProductsByCategory") =>
              LET all == Find(req'[r].filter) IN
              req'[r].minMaxPrice =
                  IF Len(all) = 0 THEN <<>>
                  ELSE <<[minPrice |-> MinOf(Prices(all)), maxPrice |-> MaxOf(Prices(all))]>>
        /\ Ended(r, "getProductsByCategory", "find") =>
              LET all == Find(req[r].filter)
                  none == req[r].minMaxPrice = <<>>
              IN
              /\ res'.result.products = PageSlice(all, PageSize, req[r].page)
              /\ res'.status = IF res'.result.products = <<>> THEN 404 ELSE 200
              /\ res'.result.category = req[r].filter[2]
              /\ res'.result.page = req[r].page
              /\ res'.result.pages = CeilOf(req[r].count, PageSize)
              /\ res'.result.minPrice =
                    IF none THEN UNDEF ELSE req[r].minMaxPrice[1].minPrice
              /\ res'.result.maxPrice =
                    IF none THEN UNDEF ELSE req[r].minMaxPrice[1].maxPrice]_vars

\* a page past the last one of a category that has products
C7_Witness ==
    /\ res.op = "getProductsByCategory"
    /\ res.status = 404
    /\ res.result.products = <<>>
    /\ res.result.page > res.result.pages
    /\ res.result.pages > 0
    /\ res.result.minPrice # UNDEF
====
